---- MODULE Spec2Model ----
(***************************************************************************)
(* Model of the chat client's conversation session controller (app.py),    *)
(* its persistence adapter (supabase_functions.py, SupabaseManager) and    *)
(* its streaming response adapter (gemini_functions.py, GeminiManager).    *)
(*                                                                         *)
(* Every Python function is an operator from a state record `s` to the     *)
(* SET of states (or of [s, ret] pairs) the call can end in: each remote   *)
(* round trip either returns or raises, and the code's except branches     *)
(* turn a raise into a notice and a failure value.  A round trip that      *)
(* raises has had no effect on the table.  A script run of main() is the   *)
(* action `main` (the refresh of app.py line 242) followed by at most one  *)
(* widget handler; `calls` and `notices` hold what that one step issued    *)
(* and showed.                                                             *)
(*                                                                         *)
(* Spec is one browser session on a table that starts empty.  SpecShared   *)
(* and SpecRace add a second session on the same table.  SpecNaming,       *)
(* SpecStream, SpecDelete and SpecSwitch each apply one function to        *)
(* arguments drawn in the initial state.                                   *)
(***************************************************************************)
EXTENDS Naturals, Sequences, FiniteSets, TLC

VARIABLES
    chat_history,             \* st.session_state.chat_history
    current_conversation_id,  \* st.session_state.current_conversation_id
    needs_name_update,        \* st.session_state.needs_name_update
    conversations,            \* st.session_state.conversations (cached list)
    api_key_configured,       \* gemini_manager.api_key_configured
    model,                    \* gemini_manager.model is set
    client,                   \* supabase_manager.client is set
    table,                    \* the backend's `conversations` table: id -> row
    inserted,                 \* rows the backend has ever inserted (id source)
    pc,                       \* position of the script run
    event,                    \* the widget that fired in the last step
    calls,                    \* adapter round trips issued by the last step
    notices,                  \* st.error texts shown by the last step
    raised,                   \* persistence round trips that have raised
    unsaved,                  \* history variable: messages appended to
                              \* chat_history since the current record was
                              \* adopted or last written
    harness,                  \* argument and results of an adapter method
                              \* that is called on its own
    peer,                     \* st.session_state of a second browser session
    pending                   \* per session: the name computed in
                              \* create_new_conversation and not yet inserted

vars == <<chat_history, current_conversation_id, needs_name_update,
          conversations, api_key_configured, model, client, table, inserted,
          pc, event, calls, notices, raised, unsaved, harness, peer, pending>>

-----------------------------------------------------------------------------
(* Bounds of the model *)

MaxConversations == 2   \* rows ever inserted
MaxMessages == 2        \* messages held in the table and in chat_history
MaxRaised == 1          \* persistence round trips that raise in a session
MaxMessageLen == 37     \* characters of a first message a name is derived from
MaxHistory == 4         \* messages of chat_history in a session of submits alone
MaxPeerRuns == 2        \* script runs of the second browser session
MaxChunks == 3          \* fragments of a stream that is consumed on its own

(* Program constants *)

None == 0               \* current_conversation_id = None; row ids are 1, 2, ...
NameLimit == 30         \* first_message[:30]

Ellipsis == "..."
PlaceholderPrefix == "New Chat "
NotConfiguredNotice == "Please enter your Gemini API key in the sidebar first."
NotConfiguredError == "API key not configured"
Exc == "backend error"  \* str(e) of a raised exception

(* Inputs *)

ShortPrompt == "Hi"
LongPrompt == "Hello there, how are you today friend"
Prompts == {ShortPrompt, LongPrompt}

\* A token stream: the fragments it yields, then whether it raises.
\* First messages of every length up to MaxMessageLen, the empty one included.
MessageTexts ==
    {LongPrompt \o " and family, and what is the weather like",
     "What is the capital of France, and since when has it been so?"}

FirstMessages ==
    {SubSeq(text, 1, n) : text \in MessageTexts, n \in 0..MaxMessageLen}

\* Streams of up to MaxChunks fragments, empty fragments included.
Fragments == {"", "Hel", "lo, ", "world"}

StreamInputs ==
    {[chunks |-> c, raises |-> r] :
        c \in UNION {[1..n -> Fragments] : n \in 0..MaxChunks}, r \in BOOLEAN}

Streams ==
    { [chunks |-> <<"Hel", "lo, ", "world">>, raises |-> FALSE],
      [chunks |-> <<"Par", "tial">>, raises |-> TRUE] }

-----------------------------------------------------------------------------
(* Values *)

Message(role, content) == [role |-> role, content |-> content]

Row(id, name, history, created) ==
    [id |-> id, name |-> name, chat_history |-> history, created_at |-> created]

Call(op, id, name, history, ok) ==
    [op |-> op, id |-> id, name |-> name, chat_history |-> history, ok |-> ok]

Log(s, c) == [s EXCEPT !.calls = Append(@, c)]

\* st.error(text)
st_error(s, text) == [s EXCEPT !.notices = Append(@, text)]

\* The round trip `c` raises and the except branch shows `text`.
Raise(s, c, text) == st_error(Log([s EXCEPT !.raised = @ + 1], c), text)

\* The outcomes of a round trip: it returns, or (within the bound) it raises.
RoundTrip(s, returned, raising) ==
    IF s.raised < MaxRaised THEN {returned, raising} ELSE {returned}

Digit(d) ==
    CASE d = 0 -> "0" [] d = 1 -> "1" [] d = 2 -> "2" [] d = 3 -> "3"
      [] d = 4 -> "4" [] d = 5 -> "5" [] d = 6 -> "6" [] d = 7 -> "7"
      [] d = 8 -> "8" [] d = 9 -> "9"

RECURSIVE str(_)
\* f"{count}": the decimal digits of a natural number
str(n) == IF n < 10 THEN Digit(n) ELSE str(n \div 10) \o Digit(n % 10)

RECURSIVE order_desc(_)
\* .order('created_at', desc=True)
order_desc(rows) ==
    IF rows = {} THEN <<>>
    ELSE LET r == CHOOSE r \in rows : \A q \in rows : q.created_at <= r.created_at
         IN  <<r>> \o order_desc(rows \ {r})

\* select('*') of the whole table
select_all(t) == order_desc({t[i] : i \in DOMAIN t})

-----------------------------------------------------------------------------
(* SupabaseManager: each method returns the set of [s, ret] it can end in. *)
(* ret of an Optional[Dict] is <<>> (None) or <<row>>.  updated_at is      *)
(* written by the updates and read by nothing; it is left out.             *)

db_create_conversation(s, name) ==
    IF ~s.client THEN {[s |-> s, ret |-> <<>>]}
    ELSE LET id == s.inserted + 1
             row == Row(id, name, <<>>, id)
             t == [i \in DOMAIN s.table \cup {id} |->
                      IF i = id THEN row ELSE s.table[i]]
             done == [s EXCEPT !.table = t, !.inserted = id]
         IN  RoundTrip(s,
                 [s |-> Log(done, Call("create_conversation", id, name, <<>>, TRUE)),
                  ret |-> <<row>>],
                 [s |-> Raise(s, Call("create_conversation", None, name, <<>>, FALSE),
                              "Error creating conversation: " \o Exc),
                  ret |-> <<>>])

db_load_conversations(s) ==
    IF ~s.client THEN {[s |-> s, ret |-> <<>>]}
    ELSE RoundTrip(s,
             [s |-> Log(s, Call("load_conversations", None, "", <<>>, TRUE)),
              ret |-> select_all(s.table)],
             [s |-> Raise(s, Call("load_conversations", None, "", <<>>, FALSE),
                          "Error loading conversations: " \o Exc),
              ret |-> <<>>])

db_load_conversation(s, conversation_id) ==
    IF ~s.client THEN {[s |-> s, ret |-> <<>>]}
    ELSE RoundTrip(s,
             [s |-> Log(s, Call("load_conversation", conversation_id, "", <<>>, TRUE)),
              ret |-> IF conversation_id \in DOMAIN s.table
                      THEN <<s.table[conversation_id]>> ELSE <<>>],
             [s |-> Raise(s, Call("load_conversation", conversation_id, "", <<>>, FALSE),
                          "Error loading conversation: " \o Exc),
              ret |-> <<>>])

\* Mutant: a write lands only on a stored history it extends (a version
\* check).
db_update_conversation_Versioned(s, conversation_id, history) ==
    IF ~s.client THEN {[s |-> s, ret |-> FALSE]}
    ELSE LET matched ==
                 /\ conversation_id \in DOMAIN s.table
                 /\ LET stored == s.table[conversation_id].chat_history
                    IN  /\ Len(stored) <= Len(history)
                        /\ SubSeq(history, 1, Len(stored)) = stored
             done == IF matched
                     THEN [s EXCEPT !.table[conversation_id].chat_history = history,
                                    !.unsaved = IF conversation_id = s.current_conversation_id
                                                THEN <<>> ELSE @]
                     ELSE s
         IN  RoundTrip(s,
                 [s |-> Log(done, Call("update_conversation", conversation_id, "", history, TRUE)),
                  ret |-> matched],
                 [s |-> Raise(s, Call("update_conversation", conversation_id, "", history, FALSE),
                              "Error updating conversation: " \o Exc),
                  ret |-> FALSE])

\* A write that lands on the current record leaves nothing unsaved.
db_update_conversation(s, conversation_id, history) ==
    IF ~s.client THEN {[s |-> s, ret |-> FALSE]}
    ELSE LET matched == conversation_id \in DOMAIN s.table
             done == IF matched
                     THEN [s EXCEPT !.table[conversation_id].chat_history = history,
                                    !.unsaved = IF conversation_id = s.current_conversation_id
                                                THEN <<>> ELSE @]
                     ELSE s
         IN  RoundTrip(s,
                 [s |-> Log(done, Call("update_conversation", conversation_id, "", history, TRUE)),
                  ret |-> matched],
                 [s |-> Raise(s, Call("update_conversation", conversation_id, "", history, FALSE),
                              "Error updating conversation: " \o Exc),
                  ret |-> FALSE])

\* Mutant: the delete reports whether a row matched, as the updates do.
db_delete_conversation_Matched(s, conversation_id) ==
    IF ~s.client THEN {[s |-> s, ret |-> FALSE]}
    ELSE LET t == [i \in DOMAIN s.table \ {conversation_id} |-> s.table[i]]
         IN  RoundTrip(s,
                 [s |-> Log([s EXCEPT !.table = t],
                            Call("delete_conversation", conversation_id, "", <<>>, TRUE)),
                  ret |-> conversation_id \in DOMAIN s.table],
                 [s |-> Raise(s, Call("delete_conversation", conversation_id, "", <<>>, FALSE),
                              "Error deleting conversation: " \o Exc),
                  ret |-> FALSE])

db_delete_conversation(s, conversation_id) ==
    IF ~s.client THEN {[s |-> s, ret |-> FALSE]}
    ELSE LET t == [i \in DOMAIN s.table \ {conversation_id} |-> s.table[i]]
         IN  RoundTrip(s,
                 [s |-> Log([s EXCEPT !.table = t],
                            Call("delete_conversation", conversation_id, "", <<>>, TRUE)),
                  ret |-> TRUE],
                 [s |-> Raise(s, Call("delete_conversation", conversation_id, "", <<>>, FALSE),
                              "Error deleting conversation: " \o Exc),
                  ret |-> FALSE])

\* Mutant: the count is taken from the list the session has cached.
generate_conversation_name_Cached(s, first_message) ==
    IF first_message # <<>> /\ first_message[1] # ""
    THEN LET m == first_message[1]
         IN  {[s |-> s, ret |-> IF Len(m) > NameLimit
                                THEN SubSeq(m, 1, NameLimit) \o Ellipsis ELSE m]}
    ELSE {[s |-> s, ret |-> PlaceholderPrefix \o str(Len(s.conversations) + 1)]}

\* Mutant: a message of exactly NameLimit characters is cut as well.
generate_conversation_name_AtLimit(s, first_message) ==
    IF first_message # <<>> /\ first_message[1] # ""
    THEN LET m == first_message[1]
         IN  {[s |-> s, ret |-> IF Len(m) >= NameLimit
                                THEN SubSeq(m, 1, NameLimit) \o Ellipsis ELSE m]}
    ELSE {[s |-> l.s, ret |-> PlaceholderPrefix \o str(Len(l.ret) + 1)] :
             l \in db_load_conversations(s)}

\* first_message is <<>> (None) or <<text>>
generate_conversation_name(s, first_message) ==
    IF first_message # <<>> /\ first_message[1] # ""
    THEN LET m == first_message[1]
         IN  {[s |-> s,
               ret |-> IF Len(m) > NameLimit
                       THEN SubSeq(m, 1, NameLimit) \o Ellipsis ELSE m]}
    ELSE {[s |-> l.s, ret |-> PlaceholderPrefix \o str(Len(l.ret) + 1)] :
             l \in db_load_conversations(s)}

db_update_conversation_name(s, conversation_id, new_name) ==
    IF ~s.client THEN {[s |-> s, ret |-> FALSE]}
    ELSE LET matched == conversation_id \in DOMAIN s.table
             done == IF matched
                     THEN [s EXCEPT !.table[conversation_id].name = new_name]
                     ELSE s
         IN  RoundTrip(s,
                 [s |-> Log(done, Call("update_conversation_name", conversation_id, new_name, <<>>, TRUE)),
                  ret |-> matched],
                 [s |-> Raise(s, Call("update_conversation_name", conversation_id, new_name, <<>>, FALSE),
                              "Error updating conversation name: " \o Exc),
                  ret |-> FALSE])

-----------------------------------------------------------------------------
(* GeminiManager *)

\* The outcome is nondeterministic: genai.configure / GenerativeModel may raise.
configure_api_key(s) ==
    { [s EXCEPT !.model = TRUE, !.api_key_configured = TRUE],
      [s EXCEPT !.api_key_configured = FALSE] }

\* ret is the pair (response, error): response is <<>> (None) or <<stream>>,
\* error is "" (None) or the error text.
generate_response(s, prompt) ==
    IF ~s.api_key_configured \/ ~s.model
    THEN {[s |-> s, ret |-> [response |-> <<>>, error |-> NotConfiguredError]]}
    ELSE {[s |-> Log(s, Call("generate_content", None, prompt, <<>>, TRUE)),
           ret |-> [response |-> <<g>>, error |-> ""]] : g \in Streams}
         \cup
         {[s |-> Log(s, Call("generate_content", None, prompt, <<>>, FALSE)),
           ret |-> [response |-> <<>>, error |-> "Error generating response: " \o Exc]]}

RECURSIVE accumulate(_, _)
\* the for loop of display_streaming_response over the fragments that arrive
accumulate(chunks, full_response) ==
    IF chunks = <<>> THEN full_response
    ELSE accumulate(Tail(chunks),
                    IF Head(chunks) # "" THEN full_response \o Head(chunks)
                    ELSE full_response)

\* Mutant: each fragment overwrites full_response (= in place of +=).
display_streaming_response_Overwrite(s, response_generator) ==
    LET texts == SelectSeq(response_generator.chunks, LAMBDA c : c # "")
        full_response == IF texts = <<>> THEN "" ELSE texts[Len(texts)]
    IN  IF response_generator.raises
        THEN [s |-> st_error(s, "Error in streaming response: " \o Exc),
              ret |-> full_response]
        ELSE [s |-> s, ret |-> full_response]

\* Mutant: a raising stream yields the error text in place of the fragments.
display_streaming_response_ErrorText(s, response_generator) ==
    IF response_generator.raises
    THEN [s |-> st_error(s, "Error in streaming response: " \o Exc),
          ret |-> "Error in streaming response: " \o Exc]
    ELSE [s |-> s, ret |-> accumulate(response_generator.chunks, "")]

display_streaming_response(s, response_generator) ==
    LET full_response == accumulate(response_generator.chunks, "")
    IN  IF response_generator.raises
        THEN [s |-> st_error(s, "Error in streaming response: " \o Exc),
              ret |-> full_response]
        ELSE [s |-> s, ret |-> full_response]

-----------------------------------------------------------------------------
(* app.py: each function returns the set of states it can end in *)

\* Mutant: the cleared history is written to the current record.
clear_chat_history_Persist(s) ==
    IF s.current_conversation_id # None
    THEN {u.s : u \in db_update_conversation(
                          [s EXCEPT !.chat_history = <<>>],
                          s.current_conversation_id, <<>>)}
    ELSE {[s EXCEPT !.chat_history = <<>>]}

clear_chat_history(s) == {[s EXCEPT !.chat_history = <<>>]}

\* Mutant: only the newest message is written, not the whole history.
save_conversation_LastOnly(s) ==
    IF s.current_conversation_id # None
    THEN {u.s : u \in db_update_conversation(
                          s, s.current_conversation_id,
                          IF s.chat_history = <<>> THEN <<>>
                          ELSE <<s.chat_history[Len(s.chat_history)]>>)}
    ELSE {s}

save_conversation(s) ==
    IF s.current_conversation_id # None
    THEN {u.s : u \in db_update_conversation(s, s.current_conversation_id,
                                             s.chat_history)}
    ELSE {s}

\* Mutant: the history is written before the message is appended to it.
add_message_to_history_SaveFirst(s, role, content) ==
    LET append(w) ==
            [w EXCEPT !.chat_history = Append(@, Message(role, content)),
                      !.unsaved = IF w.current_conversation_id # None
                                  THEN Append(@, Message(role, content))
                                  ELSE <<>>]
    IN  IF s.current_conversation_id # None
        THEN {append(w) : w \in save_conversation(s)}
        ELSE {append(s)}

add_message_to_history(s, role, content) ==
    LET a == [s EXCEPT !.chat_history = Append(@, Message(role, content)),
                       !.unsaved = IF s.current_conversation_id # None
                                   THEN Append(@, Message(role, content))
                                   ELSE <<>>]
    IN  IF a.current_conversation_id # None THEN save_conversation(a) ELSE {a}

load_conversations(s) ==
    {[l.s EXCEPT !.conversations = l.ret] : l \in db_load_conversations(s)}

\* Mutant: the name is computed from the rows in the table at the insert.
create_named_Recount(s, name) ==
    UNION { IF c.ret # <<>>
            THEN load_conversations(
                     [c.s EXCEPT !.current_conversation_id = c.ret[1].id,
                                 !.chat_history = <<>>,
                                 !.needs_name_update = TRUE,
                                 !.unsaved = <<>>])
            ELSE {c.s}
          : c \in db_create_conversation(
                      s, PlaceholderPrefix \o str(Cardinality(DOMAIN s.table) + 1)) }

\* create_new_conversation from `result = db.create_conversation(name)` on
create_named(s, name) ==
    UNION { IF c.ret # <<>>
            THEN load_conversations(
                     [c.s EXCEPT !.current_conversation_id = c.ret[1].id,
                                 !.chat_history = <<>>,
                                 !.needs_name_update = TRUE,
                                 !.unsaved = <<>>])
            ELSE {c.s}
          : c \in db_create_conversation(s, name) }

\* Mutant: the new conversation keeps the chat_history of the previous one.
create_new_conversation_KeepHistory(s) ==
    UNION { UNION { IF c.ret # <<>>
                    THEN load_conversations(
                             [c.s EXCEPT !.current_conversation_id = c.ret[1].id,
                                         !.needs_name_update = TRUE,
                                         !.unsaved = <<>>])
                    ELSE {c.s}
                  : c \in db_create_conversation(n.s, n.ret) }
          : n \in generate_conversation_name(s, <<>>) }

create_new_conversation(s) ==
    UNION { create_named(n.s, n.ret) : n \in generate_conversation_name(s, <<>>) }

\* Mutant: the loaded history is added to the one in memory.
load_conversation_Merge(s, conversation_id) ==
    { IF l.ret # <<>>
      THEN [l.s EXCEPT !.current_conversation_id = conversation_id,
                       !.chat_history = @ \o l.ret[1].chat_history,
                       !.unsaved = <<>>]
      ELSE l.s
    : l \in db_load_conversation(s, conversation_id) }

load_conversation(s, conversation_id) ==
    { IF l.ret # <<>>
      THEN [l.s EXCEPT !.current_conversation_id = conversation_id,
                       !.chat_history = l.ret[1].chat_history,
                       !.unsaved = <<>>]
      ELSE l.s
    : l \in db_load_conversation(s, conversation_id) }

\* Mutant: deleting the current conversation keeps its chat_history.
delete_conversation_KeepHistory(s, conversation_id) ==
    UNION { IF d.ret
            THEN load_conversations(
                     IF d.s.current_conversation_id = conversation_id
                     THEN [d.s EXCEPT !.current_conversation_id = None,
                                      !.unsaved = <<>>]
                     ELSE d.s)
            ELSE {d.s}
          : d \in db_delete_conversation(s, conversation_id) }

\* Mutant: the cached list is refreshed whatever the delete returned.
delete_conversation_AlwaysRefresh(s, conversation_id) ==
    UNION { load_conversations(
                IF d.ret /\ d.s.current_conversation_id = conversation_id
                THEN [d.s EXCEPT !.current_conversation_id = None,
                                 !.chat_history = <<>>,
                                 !.unsaved = <<>>]
                ELSE d.s)
          : d \in db_delete_conversation(s, conversation_id) }

delete_conversation(s, conversation_id) ==
    UNION { IF d.ret
            THEN load_conversations(
                     IF d.s.current_conversation_id = conversation_id
                     THEN [d.s EXCEPT !.current_conversation_id = None,
                                      !.chat_history = <<>>,
                                      !.unsaved = <<>>]
                     ELSE d.s)
            ELSE {d.s}
          : d \in db_delete_conversation(s, conversation_id) }

\* handle_user_input, "Create new conversation if none exists"
ensure_conversation(s) ==
    IF s.current_conversation_id = None THEN create_new_conversation(s) ELSE {s}

\* Mutant: needs_name_update is cleared only when the rename was written.
update_name_if_first_ClearOnSuccess(s, prompt) ==
    IF s.needs_name_update /\ prompt # ""
    THEN UNION { UNION { load_conversations(
                             [u.s EXCEPT !.needs_name_update = ~u.ret])
                       : u \in db_update_conversation_name(
                                   n.s, n.s.current_conversation_id, n.ret) }
               : n \in generate_conversation_name(s, <<prompt>>) }
    ELSE {s}

\* handle_user_input, "Update conversation name if this is the first message"
update_name_if_first(s, prompt) ==
    IF s.needs_name_update /\ prompt # ""
    THEN UNION { UNION { load_conversations([u.s EXCEPT !.needs_name_update = FALSE])
                       : u \in db_update_conversation_name(
                                   n.s, n.s.current_conversation_id, n.ret) }
               : n \in generate_conversation_name(s, <<prompt>>) }
    ELSE {s}

\* handle_user_input, the else branch: the streamed text becomes the reply
show_response(s, response) ==
    LET d == display_streaming_response(s, response)
    IN  add_message_to_history(d.s, "assistant", d.ret)

\* handle_user_input, "Generate and display assistant response"
respond(s, prompt) ==
    UNION { IF g.ret.error # ""
            THEN add_message_to_history(st_error(g.s, g.ret.error),
                                        "assistant", g.ret.error)
            ELSE show_response(g.s, g.ret.response[1])
          : g \in generate_response(s, prompt) }

\* Mutant: the api_key_configured check is missing.
handle_user_input_NoCheck(s, prompt) ==
    LET named == UNION {update_name_if_first(a, prompt)
                           : a \in ensure_conversation(s)}
        asked == UNION {add_message_to_history(a, "user", prompt)
                           : a \in named}
    IN  UNION {respond(a, prompt) : a \in asked}

handle_user_input(s, prompt) ==
    IF ~s.api_key_configured
    THEN {st_error(s, NotConfiguredNotice)}
    ELSE LET named == UNION {update_name_if_first(a, prompt)
                                : a \in ensure_conversation(s)}
             asked == UNION {add_message_to_history(a, "user", prompt)
                                : a \in named}
         IN  UNION {respond(a, prompt) : a \in asked}

-----------------------------------------------------------------------------
(* The script run *)

\* The widget that fired, its argument, and the conversation current then.
Event(widget, id, prompt) ==
    [widget |-> widget, id |-> id, prompt |-> prompt,
     active |-> current_conversation_id]

\* The session at the start of a step: the logs of the step start empty.
State ==
    [chat_history |-> chat_history,
     current_conversation_id |-> current_conversation_id,
     needs_name_update |-> needs_name_update,
     conversations |-> conversations,
     api_key_configured |-> api_key_configured,
     model |-> model,
     client |-> client,
     table |-> table,
     inserted |-> inserted,
     calls |-> <<>>,
     notices |-> <<>>,
     raised |-> raised,
     unsaved |-> unsaved]

Assign(t) ==
    /\ chat_history' = t.chat_history
    /\ current_conversation_id' = t.current_conversation_id
    /\ needs_name_update' = t.needs_name_update
    /\ conversations' = t.conversations
    /\ api_key_configured' = t.api_key_configured
    /\ model' = t.model
    /\ client' = t.client
    /\ table' = t.table
    /\ inserted' = t.inserted
    /\ calls' = t.calls
    /\ notices' = t.notices
    /\ raised' = t.raised
    /\ unsaved' = t.unsaved

Step(S, next_pc, e) ==
    /\ \E t \in S : Assign(t) /\ pc' = next_pc /\ event' = e
    /\ UNCHANGED <<harness, peer, pending>>

RECURSIVE Stored(_, _)
\* The messages the rows `ids` of table `t` hold.
Stored(t, ids) ==
    IF ids = {} THEN 0
    ELSE LET i == CHOOSE i \in ids : TRUE
         IN  Len(t[i].chat_history) + Stored(t, ids \ {i})

\* The messages held in chat_history and in the rows that are not current.
Held == Len(chat_history) + Stored(table, DOMAIN table \ {current_conversation_id})

CachedIds == {conversations[i].id : i \in DOMAIN conversations}

initialize_session_state ==
    /\ chat_history = <<>>
    /\ current_conversation_id = None
    /\ needs_name_update = FALSE
    /\ conversations = <<>>
    /\ api_key_configured = FALSE
    /\ model = FALSE
    /\ client \in BOOLEAN
    /\ table = [i \in {} |-> Row(i, "", <<>>, i)]
    /\ inserted = 0
    /\ pc = "start"
    /\ event = Event("init", None, "")
    /\ calls = <<>>
    /\ notices = <<>>
    /\ raised = 0
    /\ unsaved = <<>>

\* st.session_state of a browser session that has run nothing yet.
FreshSession ==
    [chat_history |-> <<>>,
     current_conversation_id |-> None,
     needs_name_update |-> FALSE,
     conversations |-> <<>>,
     api_key_configured |-> FALSE,
     model |-> FALSE,
     unsaved |-> <<>>,
     runs |-> 0]     \* the script runs the session has made

NoHarness == [input |-> <<>>, output |-> <<>>]

NoPending == [own |-> <<>>, peer |-> <<>>]

\* One browser session, every adapter method called from its handlers.
Alone ==
    /\ harness = NoHarness
    /\ peer = FreshSession
    /\ pending = NoPending

Init == initialize_session_state /\ Alone

\* A script run begins: main() up to load_conversations().
main ==
    /\ pc \in {"start", "sidebar", "chat"}
    /\ Step(load_conversations(State), "sidebar", Event("main", None, ""))

\* render_sidebar: "New Conversation"
new_conversation_button ==
    /\ pc = "sidebar"
    /\ inserted < MaxConversations
    /\ Step(create_new_conversation(State), "start", Event("new", None, ""))

\* render_sidebar: the button of a listed conversation
conversation_button ==
    /\ pc = "sidebar"
    /\ \E id \in CachedIds :
          Step(load_conversation(State, id), "start", Event("select", id, ""))

\* render_sidebar: the delete button of a listed conversation
delete_button ==
    /\ pc = "sidebar"
    /\ \E id \in CachedIds :
          Step(delete_conversation(State, id), "start", Event("delete", id, ""))

\* render_sidebar: the API key input, shown until the key is configured
api_key_input ==
    /\ pc = "sidebar"
    /\ ~api_key_configured
    /\ Step(configure_api_key(State), "chat", Event("api_key", None, ""))

\* render_chat_interface: "Clear"
clear_button ==
    /\ pc \in {"sidebar", "chat"}
    /\ api_key_configured
    /\ chat_history # <<>>
    /\ Step(clear_chat_history(State), "start", Event("clear", None, ""))

\* render_chat_interface: st.chat_input
chat_input ==
    /\ pc \in {"sidebar", "chat"}
    /\ Held + 2 <= MaxMessages
    /\ current_conversation_id = None /\ api_key_configured
          => inserted < MaxConversations
    /\ \E prompt \in Prompts :
          Step(handle_user_input(State, prompt), "start", Event("chat", None, prompt))

Next ==
    \/ main
    \/ new_conversation_button
    \/ conversation_button
    \/ delete_button
    \/ api_key_input
    \/ clear_button
    \/ chat_input

Spec == Init /\ [][Next]_vars

\* The sessions in which "Clear" is never pressed.
NextNoClear ==
    \/ main
    \/ new_conversation_button
    \/ conversation_button
    \/ delete_button
    \/ api_key_input
    \/ chat_input

SpecNoClear == Init /\ [][NextNoClear]_vars

\* The sessions of submits alone, long enough for a submit to follow one
\* whose conversation could not be created.
long_chat_input ==
    /\ pc \in {"sidebar", "chat"}
    /\ Len(chat_history) + 2 <= MaxHistory
    /\ current_conversation_id = None /\ api_key_configured
          => inserted < MaxConversations
    /\ \E prompt \in Prompts :
          Step(handle_user_input(State, prompt), "start", Event("chat", None, prompt))

NextSubmits ==
    \/ main
    \/ api_key_input
    \/ long_chat_input

SpecSubmits == Init /\ [][NextSubmits]_vars

-----------------------------------------------------------------------------
(* Two browser sessions on one backend.  Each runs its own script with its *)
(* own st.session_state; the table is shared.  A script run of the second  *)
(* session is one step: main() up to load_conversations(), then the        *)
(* handler of the widget that fired.                                       *)

\* The second session at the start of its script run.
PeerState ==
    [chat_history |-> peer.chat_history,
     current_conversation_id |-> peer.current_conversation_id,
     needs_name_update |-> peer.needs_name_update,
     conversations |-> peer.conversations,
     api_key_configured |-> peer.api_key_configured,
     model |-> peer.model,
     client |-> client,
     table |-> table,
     inserted |-> inserted,
     calls |-> <<>>,
     notices |-> <<>>,
     raised |-> raised,
     unsaved |-> peer.unsaved]

PeerEvent(widget, id, prompt) ==
    [widget |-> widget, id |-> id, prompt |-> prompt,
     active |-> peer.current_conversation_id]

PeerAssign(t) ==
    /\ peer' = [chat_history |-> t.chat_history,
                current_conversation_id |-> t.current_conversation_id,
                needs_name_update |-> t.needs_name_update,
                conversations |-> t.conversations,
                api_key_configured |-> t.api_key_configured,
                model |-> t.model,
                unsaved |-> t.unsaved,
                runs |-> peer.runs + 1]
    /\ table' = t.table
    /\ inserted' = t.inserted
    /\ raised' = t.raised
    /\ calls' = t.calls
    /\ notices' = t.notices
    /\ UNCHANGED <<chat_history, current_conversation_id, needs_name_update,
                   conversations, api_key_configured, model, client, pc,
                   unsaved, harness>>

PeerStep(S, e) ==
    /\ \E t \in S : PeerAssign(t)
    /\ event' = e
    /\ UNCHANGED pending

\* Both sessions have a client and have their API key configured already;
\* the second session has made no script run yet.  Every round trip of
\* these runs returns: none is left of the round trips that may raise.
SharedInit ==
    /\ chat_history = <<>>
    /\ current_conversation_id = None
    /\ needs_name_update = FALSE
    /\ conversations = <<>>
    /\ api_key_configured = TRUE
    /\ model = TRUE
    /\ client = TRUE
    /\ table = [i \in {} |-> Row(i, "", <<>>, i)]
    /\ inserted = 0
    /\ pc = "start"
    /\ event = Event("init", None, "")
    /\ calls = <<>>
    /\ notices = <<>>
    /\ raised = MaxRaised
    /\ unsaved = <<>>
    /\ harness = NoHarness
    /\ peer = [FreshSession EXCEPT !.api_key_configured = TRUE, !.model = TRUE]
    /\ pending = NoPending

\* second session, render_sidebar: the button of a listed conversation
peer_conversation_button ==
    /\ peer.runs < MaxPeerRuns
    /\ \E a \in load_conversations(PeerState) :
        \E i \in DOMAIN a.conversations :
            PeerStep(load_conversation(a, a.conversations[i].id),
                     PeerEvent("peer select", a.conversations[i].id, ""))

\* second session, render_sidebar: the delete button of a listed conversation
peer_delete_button ==
    /\ peer.runs < MaxPeerRuns
    /\ \E a \in load_conversations(PeerState) :
        \E i \in DOMAIN a.conversations :
            PeerStep(delete_conversation(a, a.conversations[i].id),
                     PeerEvent("peer delete", a.conversations[i].id, ""))

\* second session, render_chat_interface: st.chat_input in a conversation
\* it has selected
peer_chat_input ==
    /\ peer.runs < MaxPeerRuns
    /\ peer.current_conversation_id # None
    /\ Len(peer.chat_history) + 2 <= MaxMessages
    /\ \E prompt \in Prompts :
          PeerStep(UNION {handle_user_input(a, prompt)
                             : a \in load_conversations(PeerState)},
                   PeerEvent("peer chat", None, prompt))

NextShared ==
    \/ main
    \/ new_conversation_button
    \/ conversation_button
    \/ chat_input
    \/ peer_conversation_button
    \/ peer_delete_button
    \/ peer_chat_input

SpecShared == SharedInit /\ [][NextShared]_vars

-----------------------------------------------------------------------------
(* Two sessions in create_new_conversation ("New Conversation").  The      *)
(* function makes its round trips one after the other, and the round trips *)
(* of the other session can come in between: the step that computes the   *)
(* name (the count) and the step that inserts the row are two actions.     *)

RaceInit ==
    /\ initialize_session_state
    /\ client
    /\ harness = NoHarness
    /\ peer = FreshSession
    /\ pending = NoPending

\* Rows inserted, and rows that a session which has its name will insert.
Claimed == inserted + Len(pending.own) + Len(pending.peer)

\* name = db.generate_conversation_name()
count_rows ==
    /\ pc = "sidebar"
    /\ pending.own = <<>>
    /\ Claimed < MaxConversations
    /\ \E n \in generate_conversation_name(State, <<>>) :
          /\ Assign(n.s)
          /\ pending' = [pending EXCEPT !.own = <<n.ret>>]
    /\ pc' = "create"
    /\ event' = Event("new count", None, "")
    /\ UNCHANGED <<harness, peer>>

\* result = db.create_conversation(name) and the rest of the function
insert_row ==
    /\ pending.own # <<>>
    /\ \E t \in create_named(State, pending.own[1]) : Assign(t)
    /\ pending' = [pending EXCEPT !.own = <<>>]
    /\ pc' = "start"
    /\ event' = Event("new insert", None, "")
    /\ UNCHANGED <<harness, peer>>

\* second session: name = db.generate_conversation_name()
peer_count_rows ==
    /\ pending.peer = <<>>
    /\ Claimed < MaxConversations
    /\ \E n \in generate_conversation_name(PeerState, <<>>) :
          /\ PeerAssign(n.s)
          /\ pending' = [pending EXCEPT !.peer = <<n.ret>>]
    /\ event' = PeerEvent("peer new count", None, "")

\* second session: result = db.create_conversation(name) and the rest
peer_insert_row ==
    /\ pending.peer # <<>>
    /\ \E t \in create_named(PeerState, pending.peer[1]) : PeerAssign(t)
    /\ pending' = [pending EXCEPT !.peer = <<>>]
    /\ event' = PeerEvent("peer new insert", None, "")

NextRace ==
    \/ main
    \/ count_rows
    \/ insert_row
    \/ peer_count_rows
    \/ peer_insert_row

SpecRace == RaceInit /\ [][NextRace]_vars

-----------------------------------------------------------------------------
(* Adapter methods called on their own: the argument is drawn in the       *)
(* initial state and the action applies the method to it.                  *)

Called(method) ==
    [widget |-> method, id |-> None, prompt |-> "", active |-> None]

NamingInit ==
    /\ initialize_session_state
    /\ harness \in {[input |-> first_message, output |-> <<>>] :
                       first_message \in {<<>>} \cup {<<m>> : m \in FirstMessages}}
    /\ peer = FreshSession
    /\ pending = NoPending

\* name = supabase_manager.generate_conversation_name(first_message)
derive_name ==
    /\ pc = "start"
    /\ \E n \in generate_conversation_name(State, harness.input) :
          /\ Assign(n.s)
          /\ harness' = [harness EXCEPT !.output = <<n.ret>>]
    /\ pc' = "called"
    /\ event' = Called("generate_conversation_name")
    /\ UNCHANGED <<peer, pending>>

SpecNaming == NamingInit /\ [][derive_name]_vars

\* A configured session that holds the user message of a submit and has
\* been handed a stream by generate_response.
StreamInit ==
    /\ chat_history = <<Message("user", ShortPrompt)>>
    /\ current_conversation_id = None
    /\ needs_name_update = FALSE
    /\ conversations = <<>>
    /\ api_key_configured = TRUE
    /\ model = TRUE
    /\ client \in BOOLEAN
    /\ table = [i \in {} |-> Row(i, "", <<>>, i)]
    /\ inserted = 0
    /\ pc = "start"
    /\ event = Called("generate_response")
    /\ calls = <<>>
    /\ notices = <<>>
    /\ raised = 0
    /\ unsaved = <<>>
    /\ harness \in {[input |-> <<g>>, output |-> <<>>] : g \in StreamInputs}
    /\ peer = FreshSession
    /\ pending = NoPending

\* full_response = gemini_manager.display_streaming_response(response)
\* add_message_to_history("assistant", full_response)
consume_stream ==
    /\ pc = "start"
    /\ \E t \in show_response(State, harness.input[1]) : Assign(t)
    /\ harness' = [harness EXCEPT !.output =
                      <<display_streaming_response(State, harness.input[1]).ret>>]
    /\ pc' = "called"
    /\ event' = Called("display_streaming_response")
    /\ UNCHANGED <<peer, pending>>

SpecStream == StreamInit /\ [][consume_stream]_vars

\* The stores that are left of MaxConversations inserted rows.
StoredTables ==
    UNION {[ids -> {Row(0, "New Chat 1", h, 0) :
                       h \in {<<>>, <<Message("user", ShortPrompt)>>}}]
              : ids \in SUBSET (1..MaxConversations)}

DeleteInit ==
    /\ chat_history = <<>>
    /\ current_conversation_id = None
    /\ needs_name_update = FALSE
    /\ conversations = <<>>
    /\ api_key_configured = FALSE
    /\ model = FALSE
    /\ client \in BOOLEAN
    /\ \E t \in StoredTables :
          table = [i \in DOMAIN t |-> [t[i] EXCEPT !.id = i, !.created_at = i]]
    /\ inserted = MaxConversations
    /\ pc = "start"
    /\ event = Called("init")
    /\ calls = <<>>
    /\ notices = <<>>
    /\ raised = 0
    /\ unsaved = <<>>
    /\ harness \in {[input |-> id, output |-> <<>>] :
                       id \in 1..(MaxConversations + 1)}
    /\ peer = FreshSession
    /\ pending = NoPending

\* supabase_manager.delete_conversation(conversation_id), called twice
adapter_delete ==
    /\ pc \in {"start", "called"}
    /\ Len(harness.output) < 2
    /\ \E d \in db_delete_conversation(State, harness.input) :
          /\ Assign(d.s)
          /\ harness' = [harness EXCEPT !.output = Append(@, d.ret)]
    /\ pc' = "called"
    /\ event' = Called("delete_conversation")
    /\ UNCHANGED <<peer, pending>>

SpecDelete == DeleteInit /\ [][adapter_delete]_vars

\* A session on none or one of the stored conversations, holding its
\* stored history and possibly a message that is not stored yet.
SwitchInit ==
    /\ \E t \in StoredTables :
          /\ table = [i \in DOMAIN t |-> [t[i] EXCEPT !.id = i, !.created_at = i]]
          /\ current_conversation_id \in {None} \cup DOMAIN t
    /\ unsaved \in {<<>>, <<Message("user", LongPrompt)>>}
    /\ chat_history = IF current_conversation_id = None THEN unsaved
                      ELSE table[current_conversation_id].chat_history \o unsaved
    /\ needs_name_update = FALSE
    /\ conversations = select_all(table)
    /\ api_key_configured = TRUE
    /\ model = TRUE
    /\ client \in BOOLEAN
    /\ inserted = MaxConversations
    /\ pc = "start"
    /\ event = Called("init")
    /\ calls = <<>>
    /\ notices = <<>>
    /\ raised = 0
    /\ harness \in {[input |-> id, output |-> <<>>] :
                       id \in 1..(MaxConversations + 1)}
    /\ peer = FreshSession
    /\ pending = NoPending

\* load_conversation(conversation_id) of app.py, for a listed id or for one
\* that another session has deleted
switch_conversation ==
    /\ pc = "start"
    /\ \E t \in load_conversation(State, harness.input) : Assign(t)
    /\ pc' = "called"
    /\ event' = Event("load_conversation", harness.input, "")
    /\ UNCHANGED <<harness, peer, pending>>

SpecSwitch == SwitchInit /\ [][switch_conversation]_vars

-----------------------------------------------------------------------------
(* Vocabulary of the properties *)

Last(seq) == seq[Len(seq)]

Range(seq) == {seq[i] : i \in DOMAIN seq}

\* Round trips of kind `op` among the calls `cs`: issued, returned, raised.
Issued(cs, op) == \E i \in DOMAIN cs : cs[i].op = op

Returned(cs, op) == \E i \in DOMAIN cs : cs[i].op = op /\ cs[i].ok

Raising(cs, op) == \E i \in DOMAIN cs : cs[i].op = op /\ ~cs[i].ok

StreamErrorText == "Error in streaming response: " \o Exc

PartialText == "Partial"

\* "New Chat n": a name no user message has replaced.
IsPlaceholder(name) ==
    \E n \in 1..(MaxConversations + 1) : name = PlaceholderPrefix \o str(n)

-----------------------------------------------------------------------------
(* C1: in a session of submits, switches and deletes (no "Clear"), after   *)
(* every operation chat_history is the history persisted for the current   *)
(* conversation followed, in order, by the messages appended since that    *)
(* write.                                                                  *)
C1_HistoryIsPersistedPlusUnsaved ==
    current_conversation_id # None =>
        /\ current_conversation_id \in DOMAIN table
        /\ chat_history = table[current_conversation_id].chat_history \o unsaved

\* A submit whose first write landed and whose second raised.
C1_Witness ==
    /\ event.widget = "chat"
    /\ current_conversation_id \in DOMAIN table
    /\ table[current_conversation_id].chat_history # <<>>
    /\ unsaved # <<>>

(* C2, as claimed: when the stream raises after some fragments, the        *)
(* assistant message appended by the submit holds the error text.          *)
C2_Original ==
    event.widget = "chat" /\ StreamErrorText \in Range(notices) =>
        /\ chat_history # <<>>
        /\ Last(chat_history) = Message("assistant", StreamErrorText)

(* C2, amended: when the stream raises after the fragments "Par", "tial",  *)
(* the assistant message appended by the submit holds the text accumulated *)
(* so far, "Partial"; the error text is shown as a notice only.            *)
C2_PartialTextKept ==
    event.widget = "chat" /\ StreamErrorText \in Range(notices) =>
        /\ chat_history # <<>>
        /\ Last(chat_history) = Message("assistant", PartialText)

\* The stream raised and the partial text was appended and persisted.
C2_Witness ==
    /\ event.widget = "chat"
    /\ StreamErrorText \in Range(notices)
    /\ current_conversation_id \in DOMAIN table
    /\ table[current_conversation_id].chat_history = chat_history
    /\ Last(chat_history).content = PartialText

(* C3, as claimed: needs_name_update is true only while a conversation is  *)
(* current and that conversation has not been renamed from a user message. *)
C3_Original ==
    needs_name_update =>
        /\ current_conversation_id # None
        /\ current_conversation_id \in DOMAIN table
        /\ IsPlaceholder(table[current_conversation_id].name)

(* C4, as claimed: a record that carries a name derived from a message is  *)
(* never renamed again.                                                    *)
C4_Original ==
    [][\A id \in DOMAIN table \cap DOMAIN table' :
          ~IsPlaceholder(table[id].name) => table'[id].name = table[id].name]_vars

(* C5, as claimed: needs_name_update is true right after "New              *)
(* Conversation" and false right after a submit on a configured adapter.   *)
C5_Original ==
    [][/\ event'.widget = "new" => needs_name_update'
       /\ event'.widget = "chat" /\ api_key_configured => ~needs_name_update']_vars

(* C5, amended: needs_name_update is true right after a startConversation  *)
(* that created its record and is left as it was when the creation failed; *)
(* it is false right after a submit on a configured adapter, whether the   *)
(* rename was written or not.                                              *)
C5_FlagAfterStartAndSubmit ==
    [][/\ event'.widget = "new" =>
             needs_name_update' = (IF Returned(calls', "create_conversation")
                                   THEN TRUE ELSE needs_name_update)
       /\ event'.widget = "chat" /\ api_key_configured => ~needs_name_update']_vars

\* A first submit whose rename raised: the flag is cleared all the same.
C5_Witness ==
    /\ event.widget = "chat"
    /\ Raising(calls, "update_conversation_name")
    /\ ~needs_name_update

(* C6, as claimed: deleting the current conversation leaves the session    *)
(* Empty.                                                                  *)
C6_Original ==
    [][event'.widget = "delete" /\ event'.id = current_conversation_id =>
          current_conversation_id' = None /\ chat_history' = <<>>]_vars

(* C6, amended: deleting the current conversation leaves the session Empty *)
(* when the backend delete returned; when it raised, the record stays and  *)
(* the session stays on it with its chat_history.                          *)
C6_DeleteActive ==
    [][event'.widget = "delete" /\ event'.id = current_conversation_id =>
          IF Returned(calls', "delete_conversation")
          THEN /\ current_conversation_id' = None
               /\ chat_history' = <<>>
               /\ event'.id \notin DOMAIN table'
          ELSE /\ current_conversation_id' = current_conversation_id
               /\ chat_history' = chat_history
               /\ table' = table]_vars

\* The current conversation was deleted.
C6_Witness ==
    /\ event.widget = "delete"
    /\ event.id = event.active
    /\ Returned(calls, "delete_conversation")
    /\ current_conversation_id = None
    /\ chat_history = <<>>

(* C7: a submit while the streaming adapter is not configured shows the    *)
(* not-configured notice and changes nothing: chat_history, the current    *)
(* id, needs_name_update, the cached list and the table are as before and  *)
(* no round trip is issued.                                                *)
C7_UnconfiguredSubmitChangesNothing ==
    [][event'.widget = "chat" /\ ~api_key_configured =>
          /\ notices' = <<NotConfiguredNotice>>
          /\ calls' = <<>>
          /\ UNCHANGED <<chat_history, current_conversation_id, needs_name_update,
                         conversations, table, inserted, api_key_configured,
                         model>>]_vars

\* An unconfigured submit on a conversation that awaits its first message.
C7_Witness ==
    /\ event.widget = "chat"
    /\ notices = <<NotConfiguredNotice>>
    /\ current_conversation_id \in DOMAIN table
    /\ needs_name_update

(* C8, as claimed: startConversation while a conversation is current is a  *)
(* no-op.                                                                  *)
C8_Original ==
    [][event'.widget = "new" /\ current_conversation_id # None =>
          UNCHANGED <<table, current_conversation_id, chat_history,
                      needs_name_update>>]_vars

(* C8, amended: startConversation while a conversation is current issues   *)
(* the create; when it returns, a new record with a placeholder name and   *)
(* an empty history is in the table and is current, chat_history is empty  *)
(* and needs_name_update is true; when it raises, the table, the current   *)
(* id, chat_history and needs_name_update are unchanged.                   *)
C8_StartWhileActive ==
    [][event'.widget = "new" /\ current_conversation_id # None =>
          /\ client => Issued(calls', "create_conversation")
          /\ IF Returned(calls', "create_conversation")
             THEN /\ inserted' = inserted + 1
                  /\ current_conversation_id' = inserted'
                  /\ DOMAIN table' = DOMAIN table \cup {inserted'}
                  /\ inserted' \notin DOMAIN table
                  /\ \A id \in DOMAIN table : table'[id] = table[id]
                  /\ table'[inserted'].chat_history = <<>>
                  /\ IsPlaceholder(table'[inserted'].name)
                  /\ chat_history' = <<>>
                  /\ needs_name_update'
             ELSE UNCHANGED <<table, current_conversation_id, chat_history,
                              needs_name_update>>]_vars

\* "New Conversation" pressed on an active conversation moved the session.
C8_Witness ==
    /\ event.widget = "new"
    /\ event.active # None
    /\ current_conversation_id # event.active
    /\ current_conversation_id \in DOMAIN table
    /\ event.active \in DOMAIN table

(* C9, as claimed: after deleteConversation the cached list equals the     *)
(* table's list, whatever the backend did.                                 *)
C9_Original ==
    event.widget = "delete" => conversations = select_all(table)

(* C9, amended: deleteConversation refreshes the cached list only when the *)
(* backend delete returned: the cached list is then the table's list when  *)
(* the refresh returned and empty when it raised; when the delete raised,  *)
(* no refresh is issued and the cached list is left as it was.             *)
C9_RefreshAfterDelete ==
    [][event'.widget = "delete" =>
          IF Returned(calls', "delete_conversation")
          THEN /\ Issued(calls', "load_conversations")
               /\ conversations' = IF Returned(calls', "load_conversations")
                                   THEN select_all(table') ELSE <<>>
          ELSE /\ ~Issued(calls', "load_conversations")
               /\ conversations' = conversations]_vars

\* The delete raised and the cached list was left alone.
C9_Witness ==
    /\ event.widget = "delete"
    /\ Raising(calls, "delete_conversation")
    /\ conversations # <<>>

(* C10: "Clear" empties chat_history and changes nothing else: the current *)
(* id, needs_name_update, the cached list and every row of the table are   *)
(* as before, and no round trip is issued.                                 *)
C10_ClearIsLocal ==
    [][event'.widget = "clear" =>
          /\ chat_history' = <<>>
          /\ calls' = <<>>
          /\ UNCHANGED <<current_conversation_id, needs_name_update,
                         conversations, table, inserted, api_key_configured,
                         model, client>>]_vars

\* Cleared in memory while the current record keeps its stored history.
C10_Witness ==
    /\ event.widget = "clear"
    /\ chat_history = <<>>
    /\ current_conversation_id \in DOMAIN table
    /\ table[current_conversation_id].chat_history # <<>>

-----------------------------------------------------------------------------
(* C11: the name derived from a supplied first message m that is not empty *)
(* is m itself when m has at most 30 characters, and otherwise the first   *)
(* 30 characters of m followed by "..."; a supplied message that is empty  *)
(* is treated as no message and yields the placeholder name.               *)
C11_NameOfFirstMessage ==
    harness.input # <<>> /\ harness.output # <<>> =>
        LET m == harness.input[1]
            name == harness.output[1]
        IN  /\ m # "" /\ Len(m) <= 30 => name = m
            /\ Len(m) > 30 =>
                  /\ Len(name) = 33
                  /\ SubSeq(name, 1, 30) = SubSeq(m, 1, 30)
                  /\ SubSeq(name, 31, 33) = "..."
            /\ m = "" => IsPlaceholder(name)

\* C11 as stated: every supplied message of at most 30 characters, the
\* empty one included, is returned unchanged.
C11_Original ==
    harness.input # <<>> /\ harness.output # <<>> =>
        LET m == harness.input[1]
            name == harness.output[1]
        IN  /\ Len(m) <= 30 => name = m
            /\ Len(m) > 30 => name = SubSeq(m, 1, 30) \o "..."

\* A message one character over the limit has been cut.
C11_Witness ==
    /\ harness.input = <<SubSeq(LongPrompt, 1, 31)>>
    /\ harness.output = <<SubSeq(LongPrompt, 1, 30) \o "...">>

-----------------------------------------------------------------------------
(* C12: the name given to a conversation that is created without a first   *)
(* message is "New Chat n", where the store has just been listed for this  *)
(* call and n is one more than the number of rows the store holds when the *)
(* listing returned, and 1 when the listing failed.                        *)
C12_PlaceholderCountsListedRows ==
    [][\A i \in DOMAIN calls' :
          calls'[i].op = "create_conversation" =>
              /\ i > 1
              /\ calls'[i - 1].op = "load_conversations"
              /\ calls'[i].name =
                    PlaceholderPrefix \o
                        str((IF calls'[i - 1].ok
                              THEN Cardinality(DOMAIN table) ELSE 0) + 1)]_vars

\* C12 as stated: n is always the number of rows in the store plus one.
C12_Original ==
    [][\A i \in DOMAIN calls' :
          calls'[i].op = "create_conversation" =>
              calls'[i].name =
                  PlaceholderPrefix \o str(Cardinality(DOMAIN table) + 1)]_vars

\* "New Chat 1" was created in the empty store and "New Chat 2" after it.
C12_Witness ==
    /\ event.widget = "new"
    /\ DOMAIN table = {1, 2}
    /\ table[1].name = "New Chat 1"
    /\ table[2].name = "New Chat 2"

-----------------------------------------------------------------------------
RECURSIVE Concat(_)
\* The fragments of a stream joined in the order of their arrival.
Concat(chunks) ==
    IF chunks = <<>> THEN "" ELSE Head(chunks) \o Concat(Tail(chunks))

(* C13: for a stream that ends normally, the text returned by the stream   *)
(* consumer is the concatenation of all fragments in the order of their    *)
(* arrival, and that text is the content of the assistant message the      *)
(* submit appends to chat_history.                                         *)
C13_ReplyIsConcatenation ==
    harness.output # <<>> /\ ~harness.input[1].raises =>
        /\ harness.output[1] = Concat(harness.input[1].chunks)
        /\ chat_history = <<Message("user", ShortPrompt),
                            Message("assistant", Concat(harness.input[1].chunks))>>
        /\ notices = <<>>

\* "Hel", "lo, ", "world" has become the assistant message "Hello, world".
C13_Witness ==
    /\ harness.input = <<[chunks |-> <<"Hel", "lo, ", "world">>, raises |-> FALSE]>>
    /\ harness.output = <<"Hello, world">>
    /\ Last(chat_history) = Message("assistant", "Hello, world")

-----------------------------------------------------------------------------
(* C14: a delete at the persistence adapter reports success exactly when   *)
(* its round trip returned, whether or not the id is in the store; a       *)
(* delete of an id that is not in the store leaves the store unchanged, so *)
(* the second of two deletes of the same id changes nothing.               *)
C14_DeleteIgnoresAbsence ==
    [][harness'.output # harness.output =>
          /\ Last(harness'.output) = Returned(calls', "delete_conversation")
          /\ harness.input \notin DOMAIN table => table' = table
          /\ Last(harness'.output) =>
                /\ DOMAIN table' = DOMAIN table \ {harness.input}
                /\ \A i \in DOMAIN table' : table'[i] = table[i]
          /\ Len(harness'.output) = 2 /\ harness.output[1] => table' = table]_vars

\* C14 as stated: every delete of an id that is not in the store reports
\* success.
C14_Original ==
    [][harness'.output # harness.output /\ harness.input \notin DOMAIN table =>
          Last(harness'.output) /\ table' = table]_vars

\* An id that was never created has been deleted twice, with success.
C14_Witness ==
    /\ harness.input = MaxConversations + 1
    /\ harness.output = <<TRUE, TRUE>>
    /\ table # <<>>

-----------------------------------------------------------------------------
(* C15: in every submit that runs with a current conversation, exactly two *)
(* history writes for that conversation are issued: the first carries the  *)
(* history up to and including the user message and precedes the generate  *)
(* call, the second follows it and carries the whole new chat_history,     *)
(* which ends with the assistant message.  When the first write returned   *)
(* and the second raised, the history left in the store is the history up  *)
(* to the user message; a write that raised has stored nothing.            *)
C15_WritesAroundGeneration ==
    [][event'.widget = "chat" /\ api_key_configured
          /\ current_conversation_id' # None =>
          LET cs == calls'
              id == current_conversation_id'
              base == IF current_conversation_id = None THEN <<>> ELSE chat_history
              asked == Append(base, Message("user", event'.prompt))
              writes == {i \in DOMAIN cs : cs[i].op = "update_conversation"}
              asks == {i \in DOMAIN cs : cs[i].op = "generate_content"}
          IN  \E u \in writes, g \in asks, a \in writes :
                  /\ writes = {u, a} /\ asks = {g}
                  /\ u < g /\ g < a
                  /\ cs[u].id = id /\ cs[u].chat_history = asked
                  /\ cs[a].id = id /\ cs[a].chat_history = chat_history'
                  /\ Len(chat_history') = Len(asked) + 1
                  /\ SubSeq(chat_history', 1, Len(asked)) = asked
                  /\ Last(chat_history').role = "assistant"
                  /\ table'[id].chat_history =
                        IF cs[a].ok THEN chat_history'
                        ELSE IF cs[u].ok THEN asked
                        ELSE IF current_conversation_id = None THEN <<>>
                        ELSE table[id].chat_history]_vars

\* C15 as stated: at the generate call of every such submit the persisted
\* history ends with the user message, that is, the write before it landed.
C15_Original ==
    [][event'.widget = "chat" /\ api_key_configured
          /\ current_conversation_id' # None =>
          \E u \in DOMAIN calls', g \in DOMAIN calls' :
              /\ u < g
              /\ calls'[g].op = "generate_content"
              /\ calls'[u].op = "update_conversation"
              /\ calls'[u].ok
              /\ Last(calls'[u].chat_history) = Message("user", event'.prompt)]_vars

\* A submit whose two writes landed around the generate call.
C15_Witness ==
    /\ event.widget = "chat"
    /\ current_conversation_id # None
    /\ \E u \in DOMAIN calls :
          /\ u + 2 = Len(calls)
          /\ calls[u].op = "update_conversation" /\ calls[u].ok
          /\ calls[u].chat_history = <<Message("user", event.prompt)>>
          /\ calls[u + 1].op = "generate_content"
          /\ calls[u + 2].op = "update_conversation" /\ calls[u + 2].ok
          /\ calls[u + 2].chat_history = chat_history
    /\ table[current_conversation_id].chat_history = chat_history
    /\ Len(chat_history) = 2

-----------------------------------------------------------------------------
(* C16: every submit on a configured adapter leaves chat_history as it was *)
(* before the submit, followed by the user message and one assistant       *)
(* message.                                                                *)
C16_Original ==
    [][event'.widget = "chat" /\ api_key_configured =>
          /\ Len(chat_history') = Len(chat_history) + 2
          /\ SubSeq(chat_history', 1, Len(chat_history)) = chat_history
          /\ chat_history'[Len(chat_history) + 1] = Message("user", event'.prompt)
          /\ Last(chat_history').role = "assistant"]_vars

-----------------------------------------------------------------------------
(* C17: a switch to a conversation that is in the store, whose load round  *)
(* trip returns, makes that conversation current and chat_history exactly  *)
(* the stored history of its record, with no message of the conversation   *)
(* left before; when the id is not in the store or the load fails, the     *)
(* current conversation and chat_history are as before.                    *)
C17_SwitchReplacesOrKeeps ==
    [][event'.widget \in {"load_conversation", "select"} =>
          IF event'.id \in DOMAIN table /\ Returned(calls', "load_conversation")
          THEN /\ current_conversation_id' = event'.id
               /\ chat_history' = table[event'.id].chat_history
          ELSE /\ current_conversation_id' = current_conversation_id
               /\ chat_history' = chat_history]_vars

\* The session has gone from a conversation with a stored message to one
\* without: chat_history is empty.
C17_Witness ==
    /\ event.widget = "load_conversation"
    /\ event.active \in DOMAIN table
    /\ event.active # event.id
    /\ table[event.active].chat_history # <<>>
    /\ current_conversation_id = event.id
    /\ chat_history = <<>>

-----------------------------------------------------------------------------
(* C18: with two sessions on one conversation, the history write that a    *)
(* submit ends with replaces the stored chat_history by the writer's own   *)
(* chat_history, whatever the store held: the stored history is that of    *)
(* the last writer, and what the other session had written is lost.        *)
C18_LastWriteWins ==
    [][\A i \in DOMAIN calls' :
          /\ calls'[i].op = "update_conversation"
          /\ calls'[i].ok
          /\ calls'[i].id \in DOMAIN table'
          /\ \A j \in DOMAIN calls' :
                j > i => calls'[j].op # "update_conversation"
          => /\ table'[calls'[i].id].chat_history = calls'[i].chat_history
             /\ calls'[i].chat_history =
                   IF event'.widget = "peer chat"
                   THEN peer'.chat_history ELSE chat_history']_vars

\* Both sessions are on one conversation, the second has just submitted,
\* and a user message the first had written is no longer stored.
C18_Witness ==
    /\ event.widget = "peer chat"
    /\ current_conversation_id # None
    /\ current_conversation_id = peer.current_conversation_id
    /\ current_conversation_id \in DOMAIN table
    /\ unsaved = <<>>
    /\ table[current_conversation_id].chat_history = peer.chat_history
    /\ \E i \in DOMAIN chat_history :
          /\ chat_history[i].role = "user"
          /\ chat_history[i] \notin Range(peer.chat_history)

-----------------------------------------------------------------------------
(* C19: the placeholder name is computed from a count of the store that is *)
(* read in one round trip, and the row is inserted under that name in a    *)
(* later round trip, whatever the store holds by then: two sessions that   *)
(* read the same count insert two rows with the same "New Chat n".         *)
C19_CountThenCreate ==
    [][/\ event'.widget \in {"new count", "peer new count"} =>
             LET name == IF event'.widget = "new count"
                         THEN pending'.own ELSE pending'.peer
             IN  name = <<PlaceholderPrefix \o
                            str((IF Returned(calls', "load_conversations")
                                  THEN Cardinality(DOMAIN table) ELSE 0) + 1)>>
       /\ event'.widget \in {"new insert", "peer new insert"}
             /\ Returned(calls', "create_conversation") =>
             LET name == IF event'.widget = "new insert"
                         THEN pending.own ELSE pending.peer
             IN  /\ inserted' = inserted + 1
                 /\ DOMAIN table' = DOMAIN table \cup {inserted'}
                 /\ table'[inserted'].name = name[1]]_vars

\* Each session has created one conversation, no round trip has raised,
\* and both rows are named "New Chat 1".
C19_Witness ==
    /\ raised = 0
    /\ DOMAIN table = {1, 2}
    /\ {current_conversation_id, peer.current_conversation_id} = {1, 2}
    /\ table[1].name = "New Chat 1"
    /\ table[2].name = "New Chat 1"

====
